---- MODULE Spec2Model ----
(***************************************************************************)
(* A model of Models/BNN.py: the BNN ensemble (class BNN), its four        *)
(* propagation paths, its training objective, elite selection, freezing    *)
(* and persistence.                                                        *)
(*                                                                         *)
(* Tensors are records [rank, n, w, den, d]: d is a sequence of slices     *)
(* (the leading axis; a rank-2 tensor has exactly one slice), each slice a *)
(* sequence of n rows, each row a sequence of w integers.  den is the      *)
(* common denominator of the entries (1 except after a mean).              *)
(***************************************************************************)
EXTENDS Integers, Sequences, FiniteSets, TLC

VARIABLES
    num_members,        \* Ensemble.num_members == len(self), fixed at construction
    propagation_method, \* fixed at construction
    freeze,             \* BNN.freeze
    elite_models,       \* BNN.elite_models: [present, idx]
    mu,                 \* learnable parameters (state_dict): mu[layer][model]
    layer_freeze,       \* freeze flag of every Bayesian unit
    layer_elite,        \* elite index set of every layer: [present, idx]
    use_only_elite,     \* use-only-elite flag of every layer
    disk,               \* disk[dir]: the artifact saved under dir
    ret                 \* the last call: its arguments, draws and result

vars == <<num_members, propagation_method, freeze, elite_models, mu,
          layer_freeze, layer_elite, use_only_elite, disk, ret>>

---------------------------------------------------------------------------
(* Bounds of the model. *)
MaxE == 3
MaxBatch == 3
MaxStep == 1

(* The configuration the model is constructed with (in_size, out_size,     *)
(* hid_size, num_layers), and the defaults of sample_elbo.                 *)
InSize == 2
OutSize == 2
HidSize == 2
NumLayers == 1
SampleNbr == 100
ComplexityCostWeight == 1

Methods == {"None", "random_model", "fixed_model", "expectation", "bogus"}
Dirs == {"d1", "d2"}
Layers == 1..(NumLayers + 1)
OutputLayer == NumLayers + 1

---------------------------------------------------------------------------
(* Optional values and tensors. *)
None == [present |-> FALSE, idx |-> <<>>]
Some(s) == [present |-> TRUE, idx |-> s]

(* e is evaluated once and F applied to its value *)
With(e, F(_)) == CHOOSE v \in {F(r) : r \in {e}} : TRUE

NoTensor == [rank |-> 0, n |-> 0, w |-> 0, den |-> 1, d |-> <<>>]
(* the tensor with lead slices of n rows of w entries E(s, r, j) *)
Tensor(rank, lead, n, w, den, E(_, _, _)) ==
    [rank |-> rank, n |-> n, w |-> w, den |-> den,
     d |-> [s \in 1..lead |->
               [r \in 1..n |-> [j \in 1..w |-> E(s, r, j)] \o <<>>] \o <<>>] \o <<>>]
Lead(t) == Len(t.d)

RECURSIVE SumUpTo(_, _)
SumUpTo(f, n) == IF n = 0 THEN 0 ELSE f[n] + SumUpTo(f, n - 1)
SumSeq(s) == With(s \o <<>>, LAMBDA f : SumUpTo(f, Len(f)))

Range(s) == {s[i] : i \in 1..Len(s)}
Iota(n) == [i \in 1..n |-> i - 1] \o <<>>
RandPerms(n) == {p \in [1..n -> 0..(n - 1)] : Range(p) = 0..(n - 1)}

(* torch broadcasting of one axis *)
Broadcastable(a, b) == a = b \/ a = 1 \/ b = 1
BroadcastDim(a, b) == IF a = 1 THEN b ELSE a
Pick(dim, i) == IF dim = 1 THEN 1 ELSE i

(* Tensor.view: the k-th entry in row-major order, and the entries cut anew *)
FlatAt(t, k) ==
    t.d[((k - 1) \div (t.n * t.w)) + 1]
       [(((k - 1) \div t.w) % t.n) + 1]
       [((k - 1) % t.w) + 1]

Reshape(t, rank, lead, n, w) ==
    Tensor(rank, lead, n, w, t.den,
           LAMBDA s, r, c : FlatAt(t, ((s - 1) * n + (r - 1)) * w + c))

Ok(t) == [status |-> "ok", t |-> t]
Err(e) == [status |-> e, t |-> NoTensor]

---------------------------------------------------------------------------
(* Model count used by the propagation paths. *)
ModelLen == IF elite_models.present THEN Len(elite_models.idx) ELSE num_members

(* Ensemble Linear Layer: one Bayesian linear unit per member.  Unit m of  *)
(* layer l has the posterior mean mu[l][m]; a forward pass draws the       *)
(* weight mu + eps, or uses mu when the unit is frozen.                    *)
InWidth(l) == IF l = 1 THEN InSize ELSE HidSize
OutWidth(l) == IF l = OutputLayer THEN OutSize ELSE HidSize

ActiveIdx(l, st) == IF st.use[l] THEN st.elite[l].idx ELSE Iota(num_members)

LayerForward(l, x, eps, st) ==
    LET act == ActiveIdx(l, st)
        lead == BroadcastDim(Lead(x), Len(act))
        noise == IF st.frz[l] THEN 0 ELSE eps
    IN IF st.use[l] /\ ~st.elite[l].present THEN Err("RuntimeError")
       ELSE IF \E i \in 1..Len(act) : act[i] \notin 0..(num_members - 1)
       THEN Err("IndexError")
       ELSE IF x.w # InWidth(l) \/ ~Broadcastable(Lead(x), Len(act))
       THEN Err("RuntimeError")
       ELSE Ok(Tensor(3, lead, x.n, OutWidth(l), x.den,
               LAMBDA s, r, j :
                   (mu[l][act[Pick(Len(act), s)] + 1] + noise)
                       * x.d[Pick(Lead(x), s)][r][((j - 1) % x.w) + 1]))

ReLU(t) ==
    Tensor(t.rank, Lead(t), t.n, t.w, t.den,
           LAMBDA s, r, j : IF t.d[s][r][j] > 0 THEN t.d[s][r][j] ELSE 0)

(* hidden_layers(x) followed by output_layer(x); calls counts layer invocations *)
RECURSIVE RunLayers(_, _, _, _)
RunLayers(l, x, eps, st) ==
    With(LayerForward(l, x, eps, st), LAMBDA r :
        IF r.status # "ok" THEN [status |-> r.status, t |-> NoTensor, calls |-> l]
        ELSE IF l = OutputLayer THEN [status |-> "ok", t |-> r.t, calls |-> l]
        ELSE With(ReLU(r.t), LAMBDA h : RunLayers(l + 1, h, eps, st)))

---------------------------------------------------------------------------
(* Results of the forward paths: the status, the tensor returned, the      *)
(* layers' elite state left behind, the number of layer invocations, the   *)
(* use-only-elite flags while the layer stack ran, and the permutation     *)
(* drawn by torch.randperm.                                                *)
Res(status, t, st, calls, during, drawn) ==
    [status |-> status, t |-> t, st |-> st, calls |-> calls,
     during |-> during, drawn |-> drawn]
Raise(e, st) == Res(e, NoTensor, st, 0, <<>>, None)

LayerState == [elite |-> layer_elite, use |-> use_only_elite, frz |-> layer_freeze]

(* layer.set_elite(self.elite_models); layer.toggle_use_only_elite() *)
ToggleLayers(st) ==
    [st EXCEPT !.elite = [l \in Layers |-> elite_models],
               !.use = [l \in Layers |-> ~st.use[l]]]

_maybe_toggle_layers_use_only_elite(only_elite, st) ==
    IF ~elite_models.present THEN st
    ELSE IF num_members > 1 /\ only_elite THEN ToggleLayers(st)
    ELSE st

_default_forward(x, only_elite, eps, st) ==
    With(_maybe_toggle_layers_use_only_elite(only_elite, st), LAMBDA st1 :
        With(RunLayers(1, x, eps, st1), LAMBDA r :
            IF r.status # "ok"
            THEN Res(r.status, NoTensor, st1, r.calls, st1.use, None)
            ELSE Res("ok", r.t, _maybe_toggle_layers_use_only_elite(only_elite, st1),
                     r.calls, st1.use, None)))

(* an index into an axis of n entries: a negative index counts from the end *)
Wrap(i, n) == IF i < 0 THEN i + n ELSE i

(* x[:, model_shuffle_indices, ...] *)
Gather(x, idx) ==
    Tensor(3, Lead(x), Len(idx), x.w, x.den,
           LAMBDA s, j, k : x.d[s][Wrap(idx[j], x.n) + 1][k])

(* the place of write j among the writes of an index assignment; torch      *)
(* leaves the order of writes to one row unspecified                        *)
Rank(order, j) == IF j \in DOMAIN order THEN order[j] ELSE j
(* the writes to row i of an index assignment, and the one that lands last *)
Writers(idx, n, i) == {j \in 1..Len(idx) : Wrap(idx[j], n) = i - 1}
LastWriter(idx, n, i, order) ==
    CHOOSE j \in Writers(idx, n, i) :
        \A k \in Writers(idx, n, i) : Rank(order, k) <= Rank(order, j)

(* pred[model_shuffle_indices] = pred.clone(): row j of the clone, the one  *)
(* row of a one-row clone broadcast, is written to row idx[j]               *)
Unshuffle(pred, idx, order) ==
    Tensor(2, 1, pred.n, pred.w, pred.den,
           LAMBDA s, i, k :
               IF Writers(idx, pred.n, i) # {}
               THEN pred.d[1][Pick(pred.n, LastWriter(idx, pred.n, i, order))][k]
               ELSE pred.d[1][i][k])

(* pred.view(batch_size, -1) and the inverted shuffle *)
ViewAndUnshuffle(r, batch_size, idx, order) ==
    LET pnumel == Lead(r.t) * r.t.n * r.t.w
    IN IF r.status # "ok" THEN r
       ELSE IF batch_size = 0 \/ pnumel % batch_size # 0
       THEN Res("RuntimeError", NoTensor, r.st, r.calls, r.during, None)
       ELSE IF ~(Len(idx) = batch_size \/ batch_size = 1)
       THEN Res("RuntimeError", NoTensor, r.st, r.calls, r.during, None)
       ELSE With(Reshape(r.t, 2, 1, batch_size, pnumel \div batch_size), LAMBDA pred :
                [r EXCEPT !.t = Unshuffle(pred, idx, order)])

_forward_from_indices(x, idx, eps, order, st) ==
    LET batch_size == x.n
        num_models == ModelLen
        per_model == batch_size \div num_models
        numel == Lead(x) * Len(idx) * x.w
        newsize == num_models * per_model
    IN IF \E j \in 1..Len(idx) : idx[j] \notin (0 - batch_size)..(batch_size - 1)
       THEN Raise("IndexError", st)
       ELSE IF num_models = 0 THEN Raise("ZeroDivisionError", st)
       ELSE IF newsize = 0 \/ numel % newsize # 0 THEN Raise("RuntimeError", st)
       ELSE With(Gather(x, idx), LAMBDA g :
            With(Reshape(g, 3, num_models, per_model, numel \div newsize),
                 LAMBDA shuffled_x :
            With(_default_forward(shuffled_x, TRUE, eps, st), LAMBDA r :
                 ViewAndUnshuffle(r, batch_size, idx, order))))

(* mean[0] *)
First(t) == Tensor(2, 1, t.n, t.w, t.den, LAMBDA s, r, j : t.d[1][r][j])
(* pred.mean(dim=0): the sums over the leading axis, over its length *)
MeanDim0(t) ==
    Tensor(2, 1, t.n, t.w, t.den * Lead(t),
           LAMBDA s, r, j : SumSeq([k \in 1..Lead(t) |-> t.d[k][r][j]]))
(* x.unsqueeze(0) *)
Unsqueeze0(x) == [x EXCEPT !.rank = 3]

(* _forward_ensemble with the divisibility test taken against len(self)    *)
(* in place of the active-model count                                      *)
_forward_ensemble_len_self(x, propagation_indices, perm, eps, order, st) ==
    IF propagation_method = "None"
    THEN With(_default_forward(x, FALSE, eps, st), LAMBDA r :
            IF r.status = "ok" /\ num_members = 1
            THEN IF Lead(r.t) = 0
                 THEN Res("IndexError", NoTensor, r.st, r.calls, r.during, None)
                 ELSE [r EXCEPT !.t = First(r.t)]
            ELSE r)
    ELSE IF x.rank # 2 THEN Raise("AssertionError", st)
    ELSE IF x.n % num_members # 0 THEN Raise("ValueError", st)
    ELSE IF propagation_method = "random_model"
    THEN With(_forward_from_indices(Unsqueeze0(x), perm, eps, order, st), LAMBDA r :
            [r EXCEPT !.drawn = Some(perm)])
    ELSE IF propagation_method = "fixed_model"
    THEN IF ~propagation_indices.present THEN Raise("ValueError", st)
         ELSE _forward_from_indices(Unsqueeze0(x), propagation_indices.idx, eps,
                                    order, st)
    ELSE IF propagation_method = "expectation"
    THEN With(_default_forward(Unsqueeze0(x), TRUE, eps, st), LAMBDA r :
            IF r.status = "ok" THEN [r EXCEPT !.t = MeanDim0(r.t)] ELSE r)
    ELSE Raise("ValueError", st)

_forward_ensemble(x, propagation_indices, perm, eps, order, st) ==
    IF propagation_method = "None"
    THEN With(_default_forward(x, FALSE, eps, st), LAMBDA r :
            IF r.status = "ok" /\ num_members = 1
            THEN IF Lead(r.t) = 0
                 THEN Res("IndexError", NoTensor, r.st, r.calls, r.during, None)
                 ELSE [r EXCEPT !.t = First(r.t)]
            ELSE r)
    ELSE IF x.rank # 2 THEN Raise("AssertionError", st)
    ELSE IF ModelLen = 0 THEN Raise("ZeroDivisionError", st)
    ELSE IF x.n % ModelLen # 0 THEN Raise("ValueError", st)
    ELSE IF propagation_method = "random_model"
    THEN With(_forward_from_indices(Unsqueeze0(x), perm, eps, order, st), LAMBDA r :
            [r EXCEPT !.drawn = Some(perm)])
    ELSE IF propagation_method = "fixed_model"
    THEN IF ~propagation_indices.present THEN Raise("ValueError", st)
         ELSE _forward_from_indices(Unsqueeze0(x), propagation_indices.idx, eps,
                                    order, st)
    ELSE IF propagation_method = "expectation"
    THEN With(_default_forward(Unsqueeze0(x), TRUE, eps, st), LAMBDA r :
            IF r.status = "ok" THEN [r EXCEPT !.t = MeanDim0(r.t)] ELSE r)
    ELSE Raise("ValueError", st)

forward(x, propagation_indices, use_propagation, perm, eps, order, st) ==
    IF use_propagation
    THEN _forward_ensemble(x, propagation_indices, perm, eps, order, st)
    ELSE _default_forward(x, FALSE, eps, st)

---------------------------------------------------------------------------
(* Training objective. *)

(* F.mse_loss(pred, target, reduction="none"), with torch's broadcasting *)
MseNone(p, t) ==
    IF ~(Broadcastable(Lead(p), Lead(t)) /\ Broadcastable(p.n, t.n)
         /\ Broadcastable(p.w, t.w))
    THEN Err("RuntimeError")
    ELSE Ok(Tensor(IF p.rank > t.rank THEN p.rank ELSE t.rank,
                   BroadcastDim(Lead(p), Lead(t)), BroadcastDim(p.n, t.n),
                   BroadcastDim(p.w, t.w), 1,
                   LAMBDA s, r, j :
                       (p.d[Pick(Lead(p), s)][Pick(p.n, r)][Pick(p.w, j)]
                           - t.d[Pick(Lead(t), s)][Pick(t.n, r)][Pick(t.w, j)])
                       * (p.d[Pick(Lead(p), s)][Pick(p.n, r)][Pick(p.w, j)]
                           - t.d[Pick(Lead(t), s)][Pick(t.n, r)][Pick(t.w, j)])))

(* .sum((1, 2)).sum() *)
SumAll(t) ==
    SumSeq([s \in 1..Lead(t) |-> SumSeq([r \in 1..t.n |-> SumSeq(t.d[s][r])])])

LossRes(status, val, st, nfwd, nkl) ==
    [status |-> status, val |-> val, st |-> st, nfwd |-> nfwd, nkl |-> nkl]

SquaredErrorSum(r, target) ==
    IF r.status # "ok" THEN LossRes(r.status, 0, r.st, 1, 0)
    ELSE With(MseNone(r.t, target), LAMBDA e :
            IF e.status # "ok" THEN LossRes(e.status, 0, r.st, 1, 0)
            ELSE IF e.t.rank < 3 THEN LossRes("IndexError", 0, r.st, 1, 0)
            ELSE LossRes("ok", SumAll(e.t), r.st, 1, 0))

_mse_loss(model_in, target, eps, st) ==
    IF model_in.rank # target.rank THEN LossRes("AssertionError", 0, st, 0, 0)
    ELSE With(forward(model_in, None, FALSE, <<>>, eps, <<>>, st), LAMBDA r :
            SquaredErrorSum(r, target))

(* kl_divergence_from_nn(self): every Bayesian unit's divergence of the    *)
(* weights last sampled from its posterior, summed over the units.         *)
nn_kl_divergence(eps, st) ==
    SumSeq([l \in Layers |->
        SumSeq([m \in 1..num_members |-> mu[l][m] + (IF st.frz[l] THEN 0 ELSE eps)])])

(* the weight sample of the i-th forward pass of a call *)
Noise == {0, 1}
Streams == Noise \X {0, 1}
Draw(stream, i) == (stream[1] + stream[2] * i) % 2

(* one pass of the loop of sample_elbo *)
ElboStep(i, inputs, labels, complexity_cost_weight, stream, st) ==
    With(_mse_loss(inputs, labels, Draw(stream, i), st), LAMBDA m :
        IF m.status # "ok" THEN m
        ELSE LossRes("ok",
                     m.val + nn_kl_divergence(Draw(stream, i), m.st)
                                 * complexity_cost_weight,
                     m.st, m.nfwd, 1))

(* passes lo .. hi-1 of the loop, in order: the pass after a failed one is *)
(* never run, and each pass starts from the layer state the last one left  *)
RECURSIVE ElboLoop(_, _, _, _, _, _, _)
ElboLoop(lo, hi, inputs, labels, complexity_cost_weight, stream, st) ==
    IF hi = lo + 1
    THEN ElboStep(lo, inputs, labels, complexity_cost_weight, stream, st)
    ELSE With(ElboLoop(lo, (lo + hi) \div 2, inputs, labels,
                       complexity_cost_weight, stream, st), LAMBDA a :
            IF a.status # "ok" THEN a
            ELSE With(ElboLoop((lo + hi) \div 2, hi, inputs, labels,
                               complexity_cost_weight, stream, a.st), LAMBDA b :
                    LossRes(b.status, a.val + b.val, b.st,
                            a.nfwd + b.nfwd, a.nkl + b.nkl)))

(* the value returned is the fraction <<numerator, denominator>> *)
sample_elbo(inputs, labels, sample_nbr, complexity_cost_weight, stream, st) ==
    IF sample_nbr = 0 THEN LossRes("ZeroDivisionError", <<0, 1>>, st, 0, 0)
    ELSE With(ElboLoop(0, sample_nbr, inputs, labels, complexity_cost_weight,
                       stream, st), LAMBDA r :
            IF r.status # "ok" THEN [r EXCEPT !.val = <<0, 1>>]
            ELSE [r EXCEPT !.val = <<r.val, sample_nbr>>])

FrozenUnits(st) == [st EXCEPT !.frz = [l \in Layers |-> TRUE]]

(* loss without the frozen branch: the sampled objective in either mode *)
loss_always_sampled(model_in, target, stream, st) ==
    sample_elbo(model_in, target, SampleNbr, ComplexityCostWeight, stream, st)

loss(model_in, target, stream, st) ==
    IF freeze
    THEN With(FrozenUnits(st), LAMBDA st1 :
         With(_mse_loss(model_in, target, Draw(stream, 0), st1), LAMBDA m :
            [m EXCEPT !.val = <<m.val, 1>>]))
    ELSE sample_elbo(model_in, target, SampleNbr, ComplexityCostWeight, stream, st)

(* target.repeat((self.num_members, 1, 1)) *)
Repeat(t, k) ==
    Tensor(3, k * Lead(t), t.n, t.w, t.den,
           LAMBDA s, r, j : t.d[((s - 1) % Lead(t)) + 1][r][j])

ScoreOf(r, target) ==
    IF r.status # "ok" THEN r
    ELSE With(Repeat(target, num_members), LAMBDA rep :
         With(MseNone(r.t, rep), LAMBDA e :
            IF e.status # "ok"
            THEN Res(e.status, NoTensor, r.st, r.calls, r.during, None)
            ELSE [r EXCEPT !.t = e.t]))

eval_score(model_in, target, eps, st) ==
    IF ~(model_in.rank = 2 /\ target.rank = 2) THEN Raise("AssertionError", st)
    ELSE With(forward(model_in, None, FALSE, <<>>, eps, <<>>, st), LAMBDA r :
            ScoreOf(r, target))

---------------------------------------------------------------------------
(* The calls.  Every call records itself in ret. *)
(* what the caller keeps of the first of two identical forward calls: its  *)
(* result                                                                  *)
NoPrev == [status |-> "", out |-> NoTensor]

Ret0 ==
    [op |-> "__init__", status |-> "ok", x |-> NoTensor, target |-> NoTensor,
     idx |-> None, use_propagation |-> FALSE, arg |-> <<>>, dir |-> "",
     drawn |-> None, stream |-> <<0, 0>>, out |-> NoTensor, val |-> <<0, 1>>,
     meta |-> {}, nfwd |-> 0, nkl |-> 0, calls |-> 0, during |-> <<>>,
     repeat |-> 0, prev |-> NoPrev]

InitialMu(E) == [l \in Layers |-> [m \in 1..E |-> IF l = 1 THEN m ELSE 1]]
NoArtifact == [present |-> FALSE, state_dict |-> <<>>, elite_models |-> None]

Init ==
    /\ num_members \in 1..MaxE
    /\ propagation_method \in Methods
    /\ freeze \in BOOLEAN
    /\ layer_freeze = [l \in Layers |-> freeze]
    /\ elite_models = None
    /\ mu = InitialMu(num_members)
    /\ layer_elite = [l \in Layers |-> None]
    /\ use_only_elite = [l \in Layers |-> FALSE]
    /\ disk = [d \in Dirs |-> NoArtifact]
    /\ ret = Ret0

Config == <<num_members, propagation_method>>

(* set_elite without its length guard *)
set_elite_unguarded(elite_indices) == Some(elite_indices)
(* set_elite with its length guard inverted *)
set_elite_inverted(elite_indices) ==
    IF Len(elite_indices) = num_members THEN Some(elite_indices) ELSE elite_models

set_elite(elite_indices) ==
    IF Len(elite_indices) # num_members THEN Some(elite_indices) ELSE elite_models

SetElite(elite_indices) ==
    /\ elite_models' = set_elite(elite_indices)
    /\ ret' = [Ret0 EXCEPT !.op = "set_elite", !.arg = elite_indices]
    /\ UNCHANGED <<Config, freeze, mu, layer_freeze, layer_elite, use_only_elite, disk>>

FreezeModel ==
    /\ freeze' = TRUE
    /\ layer_freeze' = [l \in Layers |-> TRUE]
    /\ ret' = [Ret0 EXCEPT !.op = "freeze_model"]
    /\ UNCHANGED <<Config, elite_models, mu, layer_elite, use_only_elite, disk>>

UnfreezeModel ==
    /\ freeze' = FALSE
    /\ layer_freeze' = [l \in Layers |-> FALSE]
    /\ ret' = [Ret0 EXCEPT !.op = "unfreeze_model"]
    /\ UNCHANGED <<Config, elite_models, mu, layer_elite, use_only_elite, disk>>

(* optimizer.step(): every learnable parameter moves *)
OptimizerStep ==
    /\ mu[1][1] < 1 + MaxStep
    /\ mu' = [l \in Layers |-> [m \in 1..num_members |-> mu[l][m] + 1]]
    /\ ret' = [Ret0 EXCEPT !.op = "step"]
    /\ UNCHANGED <<Config, freeze, elite_models, layer_freeze, layer_elite,
                   use_only_elite, disk>>

model_dict == [present |-> TRUE, state_dict |-> mu, elite_models |-> elite_models]

Save(save_dir) ==
    /\ disk' = [disk EXCEPT ![save_dir] = model_dict]
    /\ ret' = [Ret0 EXCEPT !.op = "save", !.dir = save_dir]
    /\ UNCHANGED <<Config, freeze, elite_models, mu, layer_freeze, layer_elite,
                   use_only_elite>>

load_state_dict(artifact) == artifact.state_dict
(* a load that keeps the current elite list when the artifact holds none *)
load_elite_keep(artifact) ==
    IF artifact.elite_models.present THEN artifact.elite_models ELSE elite_models
load_elite(artifact) == artifact.elite_models

Load(load_dir) ==
    /\ IF disk[load_dir].present
       THEN /\ mu' = load_state_dict(disk[load_dir])
            /\ elite_models' = load_elite(disk[load_dir])
            /\ ret' = [Ret0 EXCEPT !.op = "load", !.dir = load_dir]
       ELSE /\ UNCHANGED <<mu, elite_models>>
            /\ ret' = [Ret0 EXCEPT !.op = "load", !.dir = load_dir,
                                   !.status = "FileNotFoundError"]
    /\ UNCHANGED <<Config, freeze, layer_freeze, layer_elite, use_only_elite, disk>>

ForwardCall(x, propagation_indices, use_propagation, perm, eps, order, repeat) ==
    \E r \in {forward(x, propagation_indices, use_propagation, perm, eps, order,
                      LayerState)} :
       /\ layer_elite' = r.st.elite
       /\ use_only_elite' = r.st.use
       /\ ret' = [Ret0 EXCEPT !.op = "forward", !.status = r.status, !.x = x,
                     !.idx = propagation_indices,
                     !.use_propagation = use_propagation,
                     !.drawn = r.drawn, !.stream = <<eps, 0>>, !.out = r.t,
                     !.nfwd = 1, !.calls = r.calls, !.during = r.during,
                     !.repeat = repeat,
                     !.prev = IF repeat = 0 THEN NoPrev
                              ELSE [status |-> ret.status, out |-> ret.out]]
       /\ UNCHANGED <<Config, freeze, elite_models, mu, layer_freeze, disk>>

Forward(x, propagation_indices, use_propagation, perm, eps, order) ==
    ForwardCall(x, propagation_indices, use_propagation, perm, eps, order, 0)

Loss(model_in, target, stream) ==
    \E r \in {loss(model_in, target, stream, LayerState)} :
       /\ freeze' = freeze
       /\ layer_freeze' = r.st.frz
       /\ layer_elite' = r.st.elite
       /\ use_only_elite' = r.st.use
       /\ ret' = [Ret0 EXCEPT !.op = "loss", !.status = r.status, !.x = model_in,
                     !.target = target, !.stream = stream, !.val = r.val,
                     !.nfwd = r.nfwd, !.nkl = r.nkl]
       /\ UNCHANGED <<Config, elite_models, mu, disk>>

EvalScore(model_in, target, eps) ==
    \E r \in {eval_score(model_in, target, eps, LayerState)} :
       /\ layer_elite' = r.st.elite
       /\ use_only_elite' = r.st.use
       /\ ret' = [Ret0 EXCEPT !.op = "eval_score", !.status = r.status,
                     !.x = model_in, !.target = target, !.stream = <<eps, 0>>,
                     !.out = r.t, !.nfwd = IF r.during = <<>> THEN 0 ELSE 1,
                     !.calls = r.calls, !.during = r.during]
       /\ UNCHANGED <<Config, freeze, elite_models, mu, layer_freeze, disk>>

sample_propagation_indices(batch_size, perm) ==
    IF ModelLen = 0 THEN [status |-> "ZeroDivisionError", drawn |-> None]
    ELSE IF batch_size % ModelLen # 0 THEN [status |-> "ValueError", drawn |-> None]
    ELSE [status |-> "ok", drawn |-> Some(perm)]

SamplePropagationIndices(batch_size, perm) ==
    \E r \in {sample_propagation_indices(batch_size, perm)} :
       /\ ret' = [Ret0 EXCEPT !.op = "sample_propagation_indices",
                     !.status = r.status, !.arg = <<batch_size>>,
                     !.drawn = r.drawn, !.idx = r.drawn]
       /\ UNCHANGED <<Config, freeze, elite_models, mu, layer_freeze, layer_elite,
                      use_only_elite, disk>>

---------------------------------------------------------------------------
(* The callers' inputs. *)
Row(i, w) == [k \in 1..w |-> IF k = 1 THEN i + 1 ELSE IF k = 2 THEN 0 - 1 ELSE 0]
Batch(rank, lead, n, w) ==
    Tensor(rank, lead, n, w, 1, LAMBDA s, r, k : Row(r + s - 2, w)[k])
Target(rank, lead, n, w) ==
    Tensor(rank, lead, n, w, 1, LAMBDA s, r, j : (s + r + j) % 2)

(* index lists a model-selection routine or any other caller may pass *)
EliteInputs ==
    {<<>>, <<0>>, <<num_members - 1>>, Iota(num_members - 1), Tail(Iota(num_members)),
     Iota(num_members), <<0, 0>>, <<num_members>>, Iota(num_members) \o <<0>>}

ForwardBatches ==
    {Batch(2, 1, n, InSize) : n \in 0..MaxBatch}
        \cup {Batch(2, 1, n, InSize + 1) : n \in {1, 2}}
        \cup {Batch(3, num_members, 1, InSize)}

(* propagation_indices is read by the fixed_model path alone: nothing, a   *)
(* permutation, or for two rows a list naming a row twice or from the end  *)
IndexArgs(n, use_propagation) ==
    IF use_propagation /\ propagation_method = "fixed_model"
    THEN {None} \cup {Some(p) : p \in RandPerms(n)}
              \cup (IF n = 2 THEN {Some(<<0, 0>>), Some(<<0 - 1, 0>>)} ELSE {})
    ELSE {None}

LossBatchSizes == {1, 2}
LossInputs ==
    {<<Batch(3, num_members, n, InSize), Target(3, num_members, n, OutSize)>> :
        n \in LossBatchSizes}
        \cup {<<Batch(2, 1, n, InSize), Target(2, 1, n, OutSize)>> : n \in LossBatchSizes}
        \cup {<<Batch(2, 1, 1, InSize), Target(3, num_members, 1, OutSize)>>,
              <<Batch(3, num_members, 1, InSize), Target(2, 1, 1, OutSize)>>,
              <<Batch(3, num_members, 1, InSize + 1), Target(3, num_members, 1, OutSize)>>}

CallSetElite == \E e \in EliteInputs : SetElite(e)
CallSave == \E d \in Dirs : Save(d)
CallLoad == \E d \in Dirs : Load(d)
(* what torch.randperm and the units' weight sampling can draw *)
PermDraws(n, use_propagation) ==
    IF use_propagation /\ propagation_method = "random_model"
    THEN RandPerms(n) ELSE {Iota(n)}
(* frozen units draw nothing *)
Sampling == \E l \in Layers : ~layer_freeze[l]
NoiseDraws == IF Sampling THEN Noise ELSE {0}
(* the orders in which the writes of the inverted shuffle can land; they   *)
(* matter only when one row is written twice                               *)
NoRepeats(idx, n) ==
    \A i, j \in 1..Len(idx) : i # j => Wrap(idx[i], n) # Wrap(idx[j], n)
WriteOrders(idx, n) ==
    IF ~idx.present \/ NoRepeats(idx.idx, n) THEN {<<>>}
    ELSE RandPerms(Len(idx.idx))
StreamDraws == IF Sampling THEN Streams ELSE {<<0, 0>>}

CallForward ==
    \E x \in ForwardBatches : \E u \in BOOLEAN : \E i \in IndexArgs(x.n, u) :
        \E p \in PermDraws(x.n, u) : \E eps \in NoiseDraws :
            \E o \in WriteOrders(i, x.n) : Forward(x, i, u, p, eps, o)
CallLoss == \E in \in LossInputs : \E s \in StreamDraws : Loss(in[1], in[2], s)
CallEvalScore ==
    \E in \in LossInputs : \E eps \in NoiseDraws : EvalScore(in[1], in[2], eps)
CallSamplePropagationIndices ==
    \E n \in 0..MaxBatch : \E p \in RandPerms(n) : SamplePropagationIndices(n, p)

(* a forward, eval_score or loss call whose result the caller drops *)
Dropped(st) ==
    /\ layer_elite' = st.elite
    /\ use_only_elite' = st.use
    /\ ret' = [ret EXCEPT !.op = "forward_held"]
    /\ UNCHANGED <<Config, freeze, elite_models, mu, layer_freeze, disk>>

(* the batches of the calls served between: one the layers accept and one  *)
(* they reject                                                             *)
BetweenBatches == {Batch(2, 1, 1, InSize), Batch(2, 1, 1, InSize + 1)}
BetweenInputs ==
    {<<Batch(3, num_members, 1, InSize), Target(3, num_members, 1, OutSize)>>,
     <<Batch(3, num_members, 1, InSize + 1), Target(3, num_members, 1, OutSize)>>}

(* the caller of a frozen model holds on to the result of a forward call   *)
(* while other forward, eval_score and loss calls are served               *)
CallBetween ==
    /\ ret.op \in {"forward", "forward_held"}
    /\ ret.repeat = 0
    /\ ret.status = "ok"
    /\ freeze
    /\ \/ \E x \in BetweenBatches : \E u \in BOOLEAN :
              \E i \in {None} \cup (IF u /\ propagation_method = "fixed_model"
                                    THEN {Some(Iota(x.n))} ELSE {}) :
                  \E r \in {forward(x, i, u, Iota(x.n), 0, <<>>, LayerState)} :
                      Dropped(r.st)
       \/ \E in \in BetweenInputs :
              \E r \in {eval_score(in[1], in[2], 0, LayerState)} : Dropped(r.st)
       \/ \E in \in BetweenInputs :
              \E r \in {loss(in[1], in[2], <<0, 0>>, LayerState)} : Dropped(r.st)

(* calling forward once more with the arguments of the held forward call *)
ForwardAgain ==
    /\ ret.op \in {"forward", "forward_held"}
    /\ ret.repeat = 0
    /\ \E p \in PermDraws(ret.x.n, ret.use_propagation) : \E eps \in NoiseDraws :
           \E o \in WriteOrders(ret.idx, ret.x.n) :
               ForwardCall(ret.x, ret.idx, ret.use_propagation, p, eps, o, 1)

(* the caller is done with the result of its last call *)
Idle == ret = Ret0
Return ==
    /\ ~Idle
    /\ ret' = Ret0
    /\ UNCHANGED <<Config, freeze, elite_models, mu, layer_freeze, layer_elite,
                   use_only_elite, disk>>

(* forward and the propagation paths *)
NextForward ==
    \/ Idle /\ CallSetElite
    \/ Idle /\ FreezeModel
    \/ Idle /\ UnfreezeModel
    \/ Idle /\ CallForward
    \/ Idle /\ CallSamplePropagationIndices
    \/ CallBetween
    \/ ForwardAgain
    \/ Return

SpecForward == Init /\ [][NextForward]_vars

(* the training objective *)
NextLoss ==
    \/ Idle /\ FreezeModel
    \/ Idle /\ UnfreezeModel
    \/ Idle /\ OptimizerStep
    \/ Idle /\ CallLoss
    \/ Idle /\ CallEvalScore
    \/ Return

SpecLoss == Init /\ [][NextLoss]_vars

(* elite selection, freezing and persistence *)
Next ==
    \/ Idle /\ CallSetElite
    \/ Idle /\ FreezeModel
    \/ Idle /\ UnfreezeModel
    \/ Idle /\ OptimizerStep
    \/ Idle /\ CallSave
    \/ Idle /\ CallLoad
    \/ Return

Spec == Init /\ [][Next]_vars

---------------------------------------------------------------------------
(* Properties. *)

(* every stored elite index names a member *)
ValidElite ==
    elite_models.present =>
        \A i \in 1..Len(elite_models.idx) : elite_models.idx[i] \in 0..(num_members - 1)
(* the active models, in their order *)
ActiveModels == IF elite_models.present THEN elite_models.idx ELSE Iota(num_members)

(* the prediction of member m alone for one input row v, from layer l on *)
RECURSIVE NetFrom(_, _, _, _)
NetFrom(l, m, v, eps) ==
    LET w == mu[l][m + 1] + (IF layer_freeze[l] THEN 0 ELSE eps)
        out == [j \in 1..OutWidth(l) |-> w * v[((j - 1) % Len(v)) + 1]]
    IN IF l = OutputLayer THEN out
       ELSE NetFrom(l + 1, m, [j \in 1..OutWidth(l) |-> IF out[j] > 0 THEN out[j] ELSE 0],
                    eps)
MemberPrediction(m, v, eps) == NetFrom(1, m, v, eps)

(* the last call was a propagating forward of a non-empty rank-2 batch of  *)
(* input_dim features whose size is a multiple of the active-model count   *)
PropagatedBatch ==
    /\ ret.op = "forward"
    /\ ret.use_propagation
    /\ ret.x.rank = 2
    /\ ret.x.w = InSize
    /\ ret.x.n >= 1
    /\ ValidElite
    /\ ModelLen >= 1
    /\ ret.x.n % ModelLen = 0

(* C1: under random_model or fixed_model propagation, for a rank-2 batch   *)
(* of B rows with B a multiple of the active-model count M, forward        *)
(* returns B rows; the row computed for shuffled slot j (input row p[j],   *)
(* model j div (B/M) of the active models) is written to position p[j],    *)
(* so row i of the result is the prediction of one active model for input  *)
(* row i.                                                                  *)
C1_RowsFollowTheirInputs ==
    (/\ PropagatedBatch
     /\ \/ propagation_method = "random_model"
        \/ /\ propagation_method = "fixed_model"
           /\ ret.idx.present
           /\ ret.idx.idx \in RandPerms(ret.x.n))
    => /\ ret.status = "ok"
       /\ ret.out.rank = 2
       /\ ret.out.n = ret.x.n
       /\ ret.out.w = OutSize
       /\ LET p == IF propagation_method = "random_model" THEN ret.drawn.idx
                   ELSE ret.idx.idx
              per == ret.x.n \div ModelLen
          IN \A j \in 1..ret.x.n :
                ret.out.d[1][p[j] + 1] =
                    MemberPrediction(ActiveModels[((j - 1) \div per) + 1],
                                     ret.x.d[1][p[j] + 1], ret.stream[1])

(* C2: with propagation enabled and a method among random_model,           *)
(* fixed_model and expectation, a rank-2 batch whose size is not a         *)
(* multiple of the active-model count M makes forward raise the            *)
(* configuration error, with no layer invoked, no permutation drawn and no *)
(* layer's use-only-elite flag toggled; sample_propagation_indices raises  *)
(* the same error without drawing.                                         *)
C2_IndivisibleBatchRaisesFirst ==
    [][/\ (/\ ret'.op = "forward"
           /\ ret'.use_propagation
           /\ propagation_method \in {"random_model", "fixed_model", "expectation"}
           /\ ret'.x.rank = 2
           /\ ModelLen >= 1
           /\ ret'.x.n % ModelLen # 0)
          => /\ ret'.status = "ValueError"
             /\ ret'.calls = 0
             /\ ret'.during = <<>>
             /\ ~ret'.drawn.present
             /\ ret'.out = NoTensor
             /\ UNCHANGED <<use_only_elite, layer_elite>>
       /\ (/\ ret'.op = "sample_propagation_indices"
           /\ ModelLen >= 1
           /\ ret'.arg[1] % ModelLen # 0)
          => /\ ret'.status = "ValueError"
             /\ ~ret'.drawn.present]_vars

C2_Witness ==
    /\ ret.op = "forward"
    /\ ret.use_propagation
    /\ propagation_method = "expectation"
    /\ elite_models.present
    /\ ModelLen = 2
    /\ num_members = 3
    /\ ret.x.rank = 2
    /\ ret.x.n = 3
    /\ ret.status = "ValueError"

(* C3: set_elite(L) leaves elite_models as it was when the length of L     *)
(* equals the ensemble size, and otherwise replaces it with L.             *)
C3_SetEliteGuard ==
    [][ret'.op = "set_elite"
          => elite_models' = IF Len(ret'.arg) = num_members THEN elite_models
                             ELSE Some(ret'.arg)]_vars

C3_Witness ==
    /\ ret.op = "set_elite"
    /\ Len(ret.arg) = num_members
    /\ elite_models.present
    /\ elite_models.idx # ret.arg

(* the second of two forward calls with identical arguments on a frozen    *)
(* model, the first of which returned; between them the model served none, *)
(* or forward, eval_score and loss calls, and no unfreeze_model, parameter *)
(* update, set_elite or load                                               *)
RepeatedForward ==
    /\ ret.op = "forward"
    /\ ret.repeat = 1
    /\ ret.prev.status = "ok"
    /\ freeze

(* C4: after freeze_model(), with no unfreeze_model, parameter update,     *)
(* set_elite or load between them, two forward calls with identical        *)
(* arguments return identical outputs, for every propagation method and    *)
(* every ensemble size.                                                    *)
C4_FrozenForwardRepeats ==
    RepeatedForward => (ret.status = "ok" /\ ret.out = ret.prev.out)

(* C5: save(d) writes the learnable parameters and elite_models to d and   *)
(* changes neither; nothing but save(d) changes what is stored under d;    *)
(* a load(d) that returns sets the parameters and elite_models to exactly  *)
(* what is stored under d.                                                 *)
C5_SaveLoadRoundTrip ==
    [][/\ ret'.op = "save"
          => /\ disk'[ret'.dir] = [present |-> TRUE, state_dict |-> mu,
                                   elite_models |-> elite_models]
             /\ UNCHANGED <<mu, elite_models>>
       /\ (ret'.op = "load" /\ ret'.status = "ok")
          => /\ disk[ret'.dir].present
             /\ mu' = disk[ret'.dir].state_dict
             /\ elite_models' = disk[ret'.dir].elite_models
             /\ UNCHANGED disk
       /\ \A d \in Dirs :
             disk'[d] # disk[d] => (ret'.op = "save" /\ ret'.dir = d)]_vars

C5_Witness ==
    /\ ret.op = "load"
    /\ ret.status = "ok"
    /\ mu = disk[ret.dir].state_dict
    /\ mu # InitialMu(num_members)
    /\ elite_models.present
    /\ \E d \in Dirs : disk[d].present /\ disk[d] # disk[ret.dir]

(* C6: a forward, loss or eval_score call that raises leaves the           *)
(* parameters, elite_models, the freeze flag and every layer's             *)
(* use-only-elite flag as they were before the call.                       *)
C6_RaisingCallChangesNothing ==
    [][(/\ ret'.op \in {"forward", "loss", "eval_score"}
        /\ ret'.status # "ok"
        /\ ValidElite)
       => UNCHANGED <<mu, elite_models, freeze, use_only_elite>>]_vars

(* the squared errors of a prediction, summed over all models, examples    *)
(* and output dimensions                                                   *)
SquaredError(p, t) ==
    SumSeq([s \in 1..Lead(p) |->
        SumSeq([r \in 1..p.n |->
            SumSeq([j \in 1..p.w |->
                (p.d[s][r][j] - t.d[Pick(Lead(t), s)][r][j])
                    * (p.d[s][r][j] - t.d[Pick(Lead(t), s)][r][j])])])])
(* the disabled-propagation forward pass of the last call's input *)
PlainForward(eps) == forward(ret.x, None, FALSE, <<>>, eps, <<>>, LayerState).t
(* the passes of a call that drew the weight sample eps *)
Passes(eps) == Cardinality({i \in 0..(SampleNbr - 1) : Draw(ret.stream, i) = eps})
SampledTerm(eps) ==
    SquaredError(PlainForward(eps), ret.target)
        + ComplexityCostWeight * nn_kl_divergence(eps, LayerState)

(* C7: a returning loss call yields an empty second value.  In frozen mode *)
(* it runs one disabled-propagation forward pass and no KL evaluation, and *)
(* its value is the squared error summed over all models, examples and     *)
(* output dimensions.  In unfrozen mode it runs sample_nbr = 100 passes,   *)
(* each one forward pass and one KL evaluation, and its value is the sum   *)
(* over the passes of squared-error sum plus weight times KL, divided by   *)
(* sample_nbr.                                                             *)
C7_LossModes ==
    (ret.op = "loss" /\ ret.status = "ok")
    => /\ ret.meta = {}
       /\ IF freeze
          THEN /\ ret.nfwd = 1
               /\ ret.nkl = 0
               /\ ret.val = <<SquaredError(PlainForward(0), ret.target), 1>>
          ELSE /\ ret.nfwd = SampleNbr
               /\ ret.nkl = SampleNbr
               /\ ret.val = <<Passes(0) * SampledTerm(0) + Passes(1) * SampledTerm(1),
                              SampleNbr>>

C7_Witness ==
    /\ ret.op = "loss"
    /\ ret.status = "ok"
    /\ ~freeze
    /\ ret.stream = <<0, 1>>
    /\ ret.x.n = 2
    /\ num_members >= 2
    /\ mu[1][1] > 1
    /\ ret.nfwd = SampleNbr

(* C8 as stated: elite_models is absent or a list of distinct member       *)
(* indices in 0..E-1 of length at most E.                                  *)
C8_EliteWellFormed ==
    elite_models.present =>
        /\ Len(elite_models.idx) <= num_members
        /\ \A i \in 1..Len(elite_models.idx) :
              elite_models.idx[i] \in 0..(num_members - 1)
        /\ \A i, j \in 1..Len(elite_models.idx) :
              i # j => elite_models.idx[i] # elite_models.idx[j]

(* C8: elite_models is absent or a list whose length differs from the      *)
(* ensemble size E; set_elite stores what it is passed, so its entries     *)
(* need be neither distinct nor in 0..E-1, and its length may exceed E.    *)
C8_EliteLengthDiffers ==
    elite_models.present => Len(elite_models.idx) # num_members

C8_Witness ==
    /\ elite_models.present
    /\ Len(elite_models.idx) > num_members
    /\ ret.op = "load"
    /\ ret.status = "ok"

(* C9: under expectation propagation, for a rank-2 batch of B rows with B  *)
(* a multiple of the active-model count M, forward returns B rows, each    *)
(* the mean over the M active models of their predictions for that row.    *)
C9_ExpectationIsMeanOverActive ==
    (PropagatedBatch /\ propagation_method = "expectation")
    => /\ ret.status = "ok"
       /\ ret.out.rank = 2
       /\ ret.out.n = ret.x.n
       /\ ret.out.w = OutSize
       /\ \A i \in 1..ret.x.n : \A j \in 1..OutSize :
             ret.out.d[1][i][j] * ModelLen =
                 ret.out.den
                   * SumSeq([k \in 1..ModelLen |->
                        MemberPrediction(ActiveModels[k], ret.x.d[1][i],
                                         ret.stream[1])[j]])

(* C10: the use-only-elite flag is toggled in pairs around the layer       *)
(* stack: while the stack runs it is on exactly when propagation is        *)
(* enabled, an elite list is stored and E > 1, and it is off on every      *)
(* layer after every forward, loss or eval_score call that returns.        *)
C10_TogglePairs ==
    (ret.op \in {"forward", "loss", "eval_score"} /\ ValidElite)
    => /\ ret.during # <<>>
          => \A l \in Layers :
                ret.during[l] =
                    (/\ ret.use_propagation
                     /\ propagation_method \in {"random_model", "fixed_model",
                                                "expectation"}
                     /\ elite_models.present
                     /\ num_members > 1)
       /\ ret.status = "ok" => \A l \in Layers : ~use_only_elite[l]

====
